---- MODULE Spec2Model ----
(***************************************************************************)
(* Model of power_plotting: PerformancePlotter (power_plot.py) and the     *)
(* render path of the Streamlit app (power_plot_app.py).                   *)
(*                                                                         *)
(* Numbers.  The code computes in IEEE doubles.  The model computes the    *)
(* same expressions in exact rational arithmetic extended with the three   *)
(* non-finite doubles (-inf, +inf, nan) that numpy produces instead of     *)
(* raising: log10(0) = -inf, -inf - -inf = nan, and so on.  Performance    *)
(* values are drawn from 0 and powers of ten, on which log10 and 10**y     *)
(* are exact in doubles as well.                                           *)
(*                                                                         *)
(* The 100 sampled boundary points of an ellipse are a function of its     *)
(* centre, its corner differences and the scale factor; the model keeps    *)
(* those parameters and the number of points instead of the samples.       *)
(***************************************************************************)
EXTENDS Integers, Sequences, FiniteSets, TLC

(* ------------------------------ bounds -------------------------------- *)

\* Records drawn on one plotter object, over all of its add_data calls.
MaxShapes == 2
\* Largest dataset size and palette length tried on the colour mapping.
MaxCount == 8
MaxPalette == 11

\* Input values of the table cells.
PVals == {1, 2}
FVals == {0, 1, 10}
Names == {"dev"}
\* Factors of the uniform rescaling of the performance axis.
Scales == {2, 3}

(* ------------------------- program constants -------------------------- *)

\* len(px.colors.sequential.Cividis)
PaletteLen == 10
\* np.linspace(0, 2 * np.pi, 100)
NPoints == 100

VARIABLES
    is_log_y,   \* self.is_log_y of the plotter object
    fig,        \* self.fig: the traces added so far, in order
    calls,      \* the datasets given to add_data on this plotter, in order
    n_items,    \* colour loop: len(df)
    n_colors,   \* colour loop: len(self.colors)
    row_i,      \* colour loop: index of the next row
    color_idxs  \* colour loop: color_idx chosen for rows 0 .. row_i - 1

vars == <<is_log_y, fig, calls, n_items, n_colors, row_i, color_idxs>>
plotter_vars == <<is_log_y, fig, calls>>
color_vars == <<n_items, n_colors, row_i, color_idxs>>

(* ------------------------ double arithmetic --------------------------- *)

Abs(n) == IF n < 0 THEN -n ELSE n

RECURSIVE GCD(_, _)
GCD(a, b) == IF b = 0 THEN a ELSE GCD(b, a % b)

\* The finite value n/d (d # 0), in lowest terms with a positive denominator.
Fin(n, d) ==
    LET nn == IF d < 0 THEN -n ELSE n
        dd == Abs(d)
        g == GCD(Abs(nn), dd)
    IN  [k |-> "fin", n |-> (IF nn < 0 THEN -1 ELSE 1) * (Abs(nn) \div g),
         d |-> dd \div g]

I(n) == Fin(n, 1)
NaN == [k |-> "nan", n |-> 0, d |-> 1]
NInf == [k |-> "ninf", n |-> 0, d |-> 1]
PInf == [k |-> "pinf", n |-> 0, d |-> 1]

IsFin(a) == a.k = "fin"
Sign(a) ==
    CASE a.k = "ninf" -> -1
      [] a.k = "pinf" -> 1
      [] a.k = "fin" -> (IF a.n < 0 THEN -1 ELSE IF a.n > 0 THEN 1 ELSE 0)

Neg(a) ==
    CASE a.k = "fin" -> Fin(-a.n, a.d)
      [] a.k = "ninf" -> PInf
      [] a.k = "pinf" -> NInf
      [] a.k = "nan" -> NaN

Add(a, b) ==
    CASE a.k = "nan" \/ b.k = "nan" -> NaN
      [] IsFin(a) /\ IsFin(b) -> Fin(a.n * b.d + b.n * a.d, a.d * b.d)
      [] IsFin(a) -> b
      [] IsFin(b) -> a
      [] OTHER -> IF a.k = b.k THEN a ELSE NaN

Sub(a, b) == Add(a, Neg(b))

Mul(a, b) ==
    CASE a.k = "nan" \/ b.k = "nan" -> NaN
      [] IsFin(a) /\ IsFin(b) -> Fin(a.n * b.n, a.d * b.d)
      [] OTHER -> IF Sign(a) * Sign(b) = 0 THEN NaN
                  ELSE IF Sign(a) * Sign(b) < 0 THEN NInf ELSE PInf

\* a / b for finite a and finite b # 0.
Div(a, b) == Fin(a.n * b.d, a.d * b.n)

Half(a) == Mul(a, Fin(1, 2))

\* np.log10 of a table cell: a warning, never an exception, off its domain.
RECURSIVE Log10(_)
Log10(f) ==
    IF f < 0 THEN NaN
    ELSE IF f = 0 THEN NInf
    ELSE IF f = 1 THEN I(0)
    ELSE Add(I(1), Log10(f \div 10))

RECURSIVE Pow10Nat(_)
Pow10Nat(e) == IF e = 0 THEN 1 ELSE 10 * Pow10Nat(e - 1)

\* 10 ** y
Pow10(y) ==
    CASE y.k = "nan" -> NaN
      [] y.k = "ninf" -> I(0)
      [] y.k = "pinf" -> PInf
      [] y.k = "fin" /\ y.d = 1 /\ y.n >= 0 -> I(Pow10Nat(y.n))

\* np.sqrt(v) of an integer v >= 0, kept symbolic unless v is a perfect square.
Sqrt(v) ==
    LET roots == {q \in 0..v : q * q = v}
    IN  IF roots # {} THEN I(CHOOSE q \in roots : TRUE)
        ELSE [k |-> "sqrt", n |-> v, d |-> 1]

(* ----------------------------- the table ------------------------------ *)

DeviceRecord == [name : Names, pmin : PVals, pmax : PVals, fmin : FVals, fmax : FVals]

\* The tables of n rows.
DataFramesOfLen(n) == [1..n -> DeviceRecord]

SetMax(S) == CHOOSE m \in S : \A x \in S : x <= m
SetMin(S) == CHOOSE m \in S : \A x \in S : m <= x

\* df_context['pmax'].max() - df_context['pmin'].min()
x_range(df) ==
    SetMax({df[j].pmax : j \in 1..Len(df)}) - SetMin({df[j].pmin : j \in 1..Len(df)})

\* df_context['fmax'].max() - df_context['fmin'].min()
y_range(df) ==
    SetMax({df[j].fmax : j \in 1..Len(df)}) - SetMin({df[j].fmin : j \in 1..Len(df)})

(* ----------------------- _get_envelope_coords ------------------------- *)

\* A bug: the factor is taken from the record being drawn, not from the table.
scale_y_per_record(log, r, df) ==
    IF ~log
    THEN IF y_range(<<r>>) # 0 THEN Div(I(x_range(<<r>>)), I(y_range(<<r>>))) ELSE I(1)
    ELSE I(1)

\* The factor that equalizes the visual units of the two axes.
scale_y(log, r, df) ==
    IF ~log
    THEN IF y_range(df) # 0 THEN Div(I(x_range(df)), I(y_range(df))) ELSE I(1)
    ELSE I(1)

\* y of the single point of a degenerate record.
point_y(log, y1) == IF log THEN Pow10(y1) ELSE y1

get_envelope_coords(log, r, df) ==
    LET x1 == I(r.pmin)
        x2 == I(r.pmax)
        y1 == IF log THEN Log10(r.fmin) ELSE I(r.fmin)
        y2 == IF log THEN Log10(r.fmax) ELSE I(r.fmax)
        s == scale_y(log, r, df)
        y1_norm == IF ~log THEN Mul(y1, s) ELSE y1
        y2_norm == IF ~log THEN Mul(y2, s) ELSE y2
        cx == Half(Add(x1, x2))
        cy_norm == Half(Add(y1_norm, y2_norm))
        dx == Sub(x2, x1)
        dy_norm == Sub(y2_norm, y1_norm)
        dist2 == Add(Mul(dx, dx), Mul(dy_norm, dy_norm))
    IN  IF dist2 = I(0)
        THEN [kind |-> "point", npts |-> 1, x |-> cx, y |-> point_y(log, y1),
              dx |-> dx, dy_norm |-> dy_norm, scale_y |-> s]
        ELSE [kind |-> "polyline", npts |-> NPoints, cx |-> cx, cy_norm |-> cy_norm,
              dx |-> dx, dy_norm |-> dy_norm, scale_y |-> s,
              \* y_final = y_rot_norm / scale_y
              div_by_zero |-> (s = I(0)),
              finite |-> (IsFin(cy_norm) /\ IsFin(dy_norm) /\ s # I(0))]

(* ------------------------------ add_data ------------------------------ *)

\* A bug: the interpolated position is rounded to the nearest index.
color_idx_round(i, n, len) ==
    LET d == IF n - 1 > 1 THEN n - 1 ELSE 1
    IN  (2 * i * (len - 1) + d) \div (2 * d)

\* A bug: the palette length is used where its last index is meant.
color_idx_len(i, n, len) ==
    LET d == IF n - 1 > 1 THEN n - 1 ELSE 1
    IN  (i * len) \div d

\* int((i / max(1, n_items - 1)) * (len(self.colors) - 1)); int() truncates, and
\* on these operands the double product truncates to the exact quotient's floor.
color_idx(i, n, len) ==
    LET d == IF n - 1 > 1 THEN n - 1 ELSE 1
    IN  (i * (len - 1)) \div d

\* The three traces of row i (0-based) of df.
row_traces(log, df, i) ==
    LET row == df[i + 1]
        color == color_idx(i, Len(df), PaletteLen)
    IN  << [type |-> "envelope", name |-> row.name, color |-> color,
            env |-> get_envelope_coords(log, row, df)],
           [type |-> "markers", name |-> row.name, color |-> color,
            x |-> <<row.pmin, row.pmax>>, y |-> <<row.fmin, row.fmax>>],
           [type |-> "label", text |-> row.name,
            lx |-> Half(I(row.pmin + row.pmax)),
            ly |-> IF log THEN Sqrt(row.fmin * row.fmax)
                   ELSE Half(I(row.fmin + row.fmax))] >>

RECURSIVE add_rows(_, _, _, _)
add_rows(f, log, df, i) ==
    IF i >= Len(df) THEN f ELSE add_rows(f \o row_traces(log, df, i), log, df, i + 1)

\* A bug: each pass starts from an empty figure.
add_data_fresh(f, log, df) == add_rows(<<>>, log, df, 0)

\* self.fig after add_data(df) on a plotter whose figure was f.
add_data(f, log, df) == add_rows(f, log, df, 0)

(* ------------------------------ actions ------------------------------- *)

RECURSIVE Rows(_)
\* All rows given to the plotter so far, in drawing order.
Rows(cs) == IF cs = <<>> THEN <<>> ELSE cs[1] \o Rows(Tail(cs))

\* PerformancePlotter(is_log_y = log): a new object with an empty figure.  The
\* app's main() builds one for every render and calls add_data on it once.
PlotterInit(log) ==
    /\ is_log_y' = log
    /\ fig' = <<>>
    /\ calls' = <<>>
    /\ UNCHANGED color_vars

\* plotter.add_data(df) on the existing object.
AddData(df) ==
    /\ Len(Rows(calls)) + Len(df) <= MaxShapes
    /\ fig' = add_data(fig, is_log_y, df)
    /\ calls' = Append(calls, df)
    /\ UNCHANGED <<is_log_y, color_vars>>

\* One iteration of add_data's loop, for the colour it selects.
ColorStep ==
    /\ row_i < n_items
    /\ color_idxs' = Append(color_idxs, color_idx(row_i, n_items, n_colors))
    /\ row_i' = row_i + 1
    /\ UNCHANGED <<n_items, n_colors, plotter_vars>>

PlotterStart ==
    /\ is_log_y \in BOOLEAN
    /\ fig = <<>>
    /\ calls = <<>>

ColorIdle ==
    /\ n_items = 1
    /\ n_colors = PaletteLen
    /\ row_i = 0
    /\ color_idxs = <<>>

Init == PlotterStart /\ ColorIdle

\* add_data on any non-empty table that still fits the bound.
AddDataCall ==
    \E n \in 1..(MaxShapes - Len(Rows(calls))) :
        \E df \in DataFramesOfLen(n) : AddData(df)

Next ==
    \/ \E log \in BOOLEAN : PlotterInit(log)
    \/ AddDataCall

Spec == Init /\ [][Next]_vars

\* The colour mapping on its own, over dataset sizes and palette lengths.
InitColor ==
    /\ is_log_y = TRUE
    /\ fig = <<>>
    /\ calls = <<>>
    /\ n_items \in 1..MaxCount
    /\ n_colors \in 1..MaxPalette
    /\ row_i = 0
    /\ color_idxs = <<>>

NextColor == ColorStep

SpecColor == InitColor /\ [][NextColor]_vars

(* ------------------------- reading the figure ------------------------- *)

AllRows == Rows(calls)

\* Rows drawn before call k on this plotter.
PassStart(k) == Len(Rows(SubSeq(calls, 1, k - 1)))

\* Position in fig of the envelope trace of row i (1-based) of call k.
EnvPos(k, i) == 3 * (PassStart(k) + i - 1) + 1
EnvOf(k, i) == fig[EnvPos(k, i)].env

PassRows == {<<k, i>> \in (1..Len(calls)) \X (1..MaxShapes + 1) : i <= Len(calls[k])}

Degenerate(r) == r.pmin = r.pmax /\ r.fmin = r.fmax
OrderingViolated(r) == r.pmin > r.pmax \/ r.fmin > r.fmax
Ordered(df) == \A j \in 1..Len(df) : ~OrderingViolated(df[j])
LogDomainViolated(r) == is_log_y /\ (r.fmin <= 0 \/ r.fmax <= 0)
ValidRecord(r) == ~OrderingViolated(r) /\ ~LogDomainViolated(r)

(* ------------------------------- C1 ----------------------------------- *)

Denom(n) == IF n - 1 >= 1 THEN n - 1 ELSE 1

\* C1 as stated: the palette position of every processed row is the nearest
\* position to (index / max(1, total_count - 1)) * (L - 1), i.e. it lies within
\* one half of the interpolated value.
C1_NearestPosition ==
    \A j \in 1..Len(color_idxs) :
        LET i == j - 1
            e == 2 * (i * (n_colors - 1) - color_idxs[j] * Denom(n_items))
        IN  -Denom(n_items) <= e /\ e <= Denom(n_items)

\* C1 amended: the palette position of every processed row is the truncation
\* (floor) of (index / max(1, total_count - 1)) * (L - 1): the largest position
\* not above the interpolated value.
C1_TruncatedPosition ==
    \A j \in 1..Len(color_idxs) :
        LET i == j - 1
            x == i * (n_colors - 1)
        IN  /\ color_idxs[j] * Denom(n_items) <= x
            /\ x < (color_idxs[j] + 1) * Denom(n_items)

\* Row 3 of 5 on a 10-colour palette interpolates to 6.75 and gets position 6.
C1_Witness ==
    /\ n_items = 5
    /\ n_colors = 10
    /\ Len(color_idxs) >= 4
    /\ color_idxs[4] = 6

(* ------------------------------- C2 ----------------------------------- *)

\* C2: index 0 gets the first palette colour, the last index gets the last
\* colour when there are at least two rows, a single row gets the first colour,
\* positions never decrease with the index and stay inside the palette.
C2_EndpointsMonotoneInBounds ==
    /\ \A j \in 1..Len(color_idxs) : 0 <= color_idxs[j] /\ color_idxs[j] <= n_colors - 1
    /\ Len(color_idxs) >= 1 => color_idxs[1] = 0
    /\ (n_items >= 2 /\ Len(color_idxs) = n_items) => color_idxs[n_items] = n_colors - 1
    /\ \A a, b \in 1..Len(color_idxs) : a <= b => color_idxs[a] <= color_idxs[b]

\* A finished pass over four rows on the 10-colour palette, ending on colour 9.
C2_Witness ==
    /\ n_items = 4
    /\ n_colors = PaletteLen
    /\ row_i = n_items
    /\ color_idxs[1] = 0
    /\ color_idxs[4] = 9

\* A finished pass over a single row.
C2_WitnessSingleRow == n_items = 1 /\ n_colors = PaletteLen /\ color_idxs = <<0>>

(* ------------------------------- C3 ----------------------------------- *)

\* C3 as stated: a record with pmin > pmax or fmin > fmax gets no boundary
\* points and no trace: the figure never holds the traces of such a record.
C3_OrderingViolationRejected ==
    \A j \in 1..Len(fig) :
        fig[j].type = "markers" =>
            fig[j].x[1] <= fig[j].x[2] /\ fig[j].y[1] <= fig[j].y[2]

(* ------------------------------- C4 ----------------------------------- *)

\* C4 as stated: in log mode a record with fmin <= 0 or fmax <= 0 produces no
\* boundary points (the figure never holds its traces); in linear mode every
\* record given is drawn.
C4_LogDomainRejected ==
    /\ is_log_y =>
        \A j \in 1..Len(fig) :
            fig[j].type = "markers" => fig[j].y[1] > 0 /\ fig[j].y[2] > 0
    /\ ~is_log_y => Len(fig) = 3 * Len(AllRows)

(* ------------------------------- C5 ----------------------------------- *)

SinglePointAt(e, r) ==
    /\ e.kind = "point"
    /\ e.npts = 1
    /\ e.x = I(r.pmin)
    /\ e.y = I(r.fmin)

\* C5 as stated: in both modes a record with pmin = pmax and fmin = fmax gets
\* exactly one point, at (pmin, fmin), never a 100-point polyline.
C5_DegenerateIsSinglePoint ==
    \A p \in PassRows :
        LET r == calls[p[1]][p[2]]
        IN  Degenerate(r) => SinglePointAt(EnvOf(p[1], p[2]), r)

\* Where C5 holds and where it does not: a record with pmin = pmax and
\* fmin = fmax gets exactly one point at (pmin, fmin) in linear mode, and in log
\* mode when fmin > 0; in log mode with fmin <= 0 it gets a 100-point polyline
\* of non-finite values.
C5_DegenerateInDomainIsSinglePoint ==
    \A p \in PassRows :
        LET r == calls[p[1]][p[2]]
            e == EnvOf(p[1], p[2])
        IN  Degenerate(r) =>
                IF is_log_y /\ r.fmin <= 0
                THEN e.kind = "polyline" /\ e.npts = NPoints /\ ~e.finite
                ELSE SinglePointAt(e, r)

\* A log-mode pass drew the degenerate record (2, 2, 10, 10) as one point.
C5_Witness ==
    \E p \in PassRows :
        LET r == calls[p[1]][p[2]]
        IN  /\ is_log_y
            /\ Degenerate(r)
            /\ r.fmin = 10
            /\ Len(fig) >= EnvPos(p[1], p[2])
            /\ EnvOf(p[1], p[2]).kind = "point"

(* ------------------------------- C6 ----------------------------------- *)

IsMaxOf(m, S) == m \in S /\ \A x \in S : x <= m
IsMinOf(m, S) == m \in S /\ \A x \in S : m <= x

\* s = (max(pmax) - min(pmin)) / (max(fmax) - min(fmin)) over df, or 1 when the
\* y range is 0.
IsDatasetScale(s, df) ==
    \E xhi \in PVals, xlo \in PVals, yhi \in FVals, ylo \in FVals :
        /\ IsMaxOf(xhi, {df[j].pmax : j \in 1..Len(df)})
        /\ IsMinOf(xlo, {df[j].pmin : j \in 1..Len(df)})
        /\ IsMaxOf(yhi, {df[j].fmax : j \in 1..Len(df)})
        /\ IsMinOf(ylo, {df[j].fmin : j \in 1..Len(df)})
        /\ s.k = "fin"
        /\ IF yhi - ylo = 0 THEN s.n = 1 /\ s.d = 1
           ELSE s.n * (yhi - ylo) = (xhi - xlo) * s.d

\* C6: within one pass every record is normalized with the same scale_y; in
\* linear mode it is the dataset's x range over its y range (1 when the y
\* range is 0), whichever record is processed; in log mode it is 1.
C6_OneScalePerPass ==
    \A p \in PassRows :
        LET s == EnvOf(p[1], p[2]).scale_y
        IN  /\ \A q \in PassRows : q[1] = p[1] => EnvOf(q[1], q[2]).scale_y = s
            /\ IF is_log_y THEN s = I(1) ELSE IsDatasetScale(s, calls[p[1]])

\* A linear pass over the records (1, 2, 0, 1) and (1, 1, 10, 10): each alone
\* has the factor 1, the dataset has 1/10, and both were drawn with 1/10.
C6_Witness ==
    /\ ~is_log_y
    /\ \E k \in 1..Len(calls) :
        /\ Len(calls[k]) = 2
        /\ calls[k][1] = [name |-> "dev", pmin |-> 1, pmax |-> 2, fmin |-> 0, fmax |-> 1]
        /\ calls[k][2] = [name |-> "dev", pmin |-> 1, pmax |-> 1, fmin |-> 10, fmax |-> 10]
        /\ Len(fig) >= EnvPos(k, 2)
        /\ EnvOf(k, 1).scale_y = Fin(1, 10)
        /\ EnvOf(k, 2).scale_y = Fin(1, 10)

(* ------------------------------- C7 ----------------------------------- *)

ScaledRecord(r, c) == [r EXCEPT !.fmin = c * r.fmin, !.fmax = c * r.fmax]
ScaledFrame(df, c) == [j \in 1..Len(df) |-> ScaledRecord(df[j], c)]

SameCornerDifference(k, i, c) ==
    LET e == EnvOf(k, i)
        df2 == ScaledFrame(calls[k], c)
        e2 == get_envelope_coords(FALSE, df2[i], df2)
    IN  e.dx = e2.dx /\ e.dy_norm = e2.dy_norm

\* C7 as stated: in linear mode, multiplying every fmin and fmax of a dataset
\* by the same factor c > 0 leaves each record's (dx, dy_norm), and so its
\* rotation angle atan2(dy_norm, dx), unchanged.
C7_RescalingKeepsAngle ==
    ~is_log_y =>
        \A p \in PassRows : \A c \in Scales : SameCornerDifference(p[1], p[2], c)

\* The same, for the datasets whose records all satisfy pmin <= pmax and
\* fmin <= fmax.
C7_RescalingKeepsAngleOrdered ==
    ~is_log_y =>
        \A p \in PassRows : \A c \in Scales :
            Ordered(calls[p[1]]) => SameCornerDifference(p[1], p[2], c)

(* ------------------------------- C8 ----------------------------------- *)

\* Traces 3j-2 .. 3j of f are the envelope, markers and label of rows[j].
ShapesOf(f, rows) ==
    /\ Len(f) = 3 * Len(rows)
    /\ \A j \in 1..Len(rows) :
        /\ f[3 * j - 2].type = "envelope" /\ f[3 * j - 2].name = rows[j].name
        /\ f[3 * j - 1].type = "markers"
        /\ f[3 * j - 1].x = <<rows[j].pmin, rows[j].pmax>>
        /\ f[3 * j - 1].y = <<rows[j].fmin, rows[j].fmax>>
        /\ f[3 * j].type = "label" /\ f[3 * j].text = rows[j].name

\* C8 as stated: after any sequence of add_data calls the figure holds only
\* the shapes of the dataset of the latest call, in input order.
C8_LatestPassOnly ==
    calls # <<>> => ShapesOf(fig, calls[Len(calls)])

\* C8 amended: a plotter's figure accumulates: after any sequence of add_data
\* calls on one plotter it holds the shapes of the records of every call, in
\* call order and input order; it holds only the latest dataset's shapes when
\* that call is the first one on a newly constructed plotter.
C8_FigureAccumulates ==
    /\ ShapesOf(fig, AllRows)
    /\ Len(calls) = 1 => ShapesOf(fig, calls[1])

\* A second add_data call on the same plotter has been made.
C8_Witness ==
    /\ Len(calls) = 2
    /\ calls[1] # calls[2]
    /\ Len(fig) = 3 * (Len(calls[1]) + Len(calls[2]))

(* ------------------------------- C9 ----------------------------------- *)

GoodRows == SelectSeq(AllRows, ValidRecord)

\* C9 as stated: a record whose geometry fails (ordering violated, or a
\* non-positive bound in log mode) is reported and left out, and every other
\* record keeps its complete envelope, markers and label: the figure holds
\* exactly the shapes of the valid records, with finite geometry.
C9_RecordsFailIndependently ==
    /\ ShapesOf(fig, GoodRows)
    /\ \A j \in 1..Len(fig) :
        (fig[j].type = "envelope" /\ fig[j].env.kind = "polyline") => fig[j].env.finite

(* ------------------------------- C10 ---------------------------------- *)

\* C10 as stated: in linear mode, in a dataset of ordered records, a record
\* whose corners differ gets the full 100-point polyline, the reverse
\* normalization never divides by a zero scale_y, and the single point is
\* returned only for pmin = pmax and fmin = fmax.
C10_PolylineUnlessCornersCoincide ==
    ~is_log_y =>
        \A p \in PassRows :
            LET r == calls[p[1]][p[2]]
                e == EnvOf(p[1], p[2])
            IN  Ordered(calls[p[1]]) =>
                    /\ e.kind = "polyline" => ~e.div_by_zero
                    /\ ~Degenerate(r) => e.kind = "polyline" /\ e.npts = NPoints
                    /\ e.kind = "point" => Degenerate(r)

\* The part of C10 that holds: on ordered records the reverse normalization
\* never divides by a zero scale_y.
C10_NoZeroDivisionOnOrdered ==
    ~is_log_y =>
        \A p \in PassRows :
            (Ordered(calls[p[1]]) /\ EnvOf(p[1], p[2]).kind = "polyline")
                => ~EnvOf(p[1], p[2]).div_by_zero

====
